---- MODULE Spec2Model ----
(***************************************************************************)
(* The example tooltip of website/lib/components/Tooltip.js, built on the  *)
(* hooks of @floating-ui/react, and the positioning hook useFloating as    *)
(* website/pages/docs/react.mdx documents it.                              *)
(*                                                                         *)
(* The specifications share the variables:                                 *)
(*   Spec       one <Tooltip> with its trigger and content, driven by      *)
(*              hover, focus, dismiss, parent re-renders, scroll/resize,   *)
(*              the close-transition timer and the microtask queue;        *)
(*   FairSpec   Spec with the scheduling the browser guarantees;           *)
(*   HookSpec   the bare useFloating() hook of the documentation;          *)
(*   RenderSpec single renders of TooltipTrigger / TooltipContent over     *)
(*              bounded sets of props, in and outside a <Tooltip>;         *)
(*   TimingSpec single renders of useTooltip / TooltipContent over the     *)
(*              states of a delay group.                                   *)
(*                                                                         *)
(* A JavaScript value that may be null or undefined is a tagged tuple.     *)
(* Coordinates are integers counting halves (5 is 2.5), so that            *)
(* Math.round has something to round.                                      *)
(***************************************************************************)
EXTENDS Integers, FiniteSets, Sequences, TLC

VARIABLES
    wrapped,            \* the trigger and content are inside a <Tooltip>
    initialOpen,        \* option initialOpen
    controlledOpen,     \* option open (Undefined when not passed)
    hasOnOpenChange,    \* option onOpenChange is a function
    uncontrolledOpen,   \* React.useState(initialOpen)
    options,            \* the options the last render gave to useFloating
    triggerNode,        \* DOM node of the rendered trigger, 0 when the parent renders none
    referenceEl,        \* useFloating: the reference element (0 is null)
    floatingEl,         \* useFloating: the floating element (0 is null)
    x, y,               \* useFloating: the coordinates, Null before the first computation
    isPositioned,       \* useFloating: isPositioned
    pending,            \* computePosition() promises not yet resolved
    subs,               \* active autoUpdate subscriptions, <<reference, floating>>
    isMounted,          \* useTransitionStyles: isMounted
    closeTimer,         \* useTransitionStyles: the unmount timeout is pending
    request,            \* the open-change request of the last step (<<"request", hook,
                        \* value>>), Null when none
    onOpenChangeCall,   \* the call of the onOpenChange option in the last step
    asChild,            \* TooltipTrigger prop asChild
    children,           \* TooltipTrigger prop children
    triggerProps,       \* the other props of TooltipTrigger
    contentProps,       \* the props of TooltipContent
    contextOut,         \* what useTooltipContext() did in the last render
    triggerOut,         \* what TooltipTrigger rendered
    contentOut,         \* what TooltipContent rendered
    delayGroup,         \* useDelayGroupContext(): isInstantPhase and currentId
    id,                 \* useId() of the TooltipContent
    restMs,             \* the restMs the last render gave to useHover, Null before it
    duration            \* the duration the last render gave to useTransitionStyles

vars == <<wrapped, initialOpen, controlledOpen, hasOnOpenChange, uncontrolledOpen,
          options, triggerNode, referenceEl, floatingEl, x, y, isPositioned,
          pending, subs, isMounted, closeTimer, request, onOpenChangeCall,
          asChild, children, triggerProps, contentProps, contextOut,
          triggerOut, contentOut, delayGroup, id, restMs, duration>>

\* ------------------------------------------------------------------ bounds

\* DOM nodes the parent may render as the trigger (node ids 1..MaxNodes).
MaxNodes == 2

\* computePosition() promises that may be outstanding at once.
MaxPending == 2

\* Tooltips of one delay group (the values of useId() are 1..MaxIds).
MaxIds == 3

\* ------------------------------------------------------------ JS values

Null == <<"null">>
Undefined == <<"undefined">>
Some(v) == <<"some", v>>
Nullish(v) == v \in {Null, Undefined}

NotRendered == <<"none">>
Throw(msg) == <<"throw", msg>>
Return(v) == <<"return", v>>
Element(type, props) == <<"element", type, props>>
IsElement(e) == e[1] = "element"

EmptyProps == [k \in {} |-> 0]

\* {...a, ...b}
Spread(a, b) ==
    [k \in DOMAIN a \cup DOMAIN b |-> IF k \in DOMAIN b THEN b[k] ELSE a[k]]

\* The prop names of the model that start with "on".
EventKeys == {"onFocus", "onMouseMove", "onKeyDown", "onClick"}

\* Math.round on a count of halves: to the nearest integer, a half towards +infinity.
MathRound(h) == (h + 1) \div 2

\* What computePosition() may resolve to (halves).
PositionResults == {[x |-> -3, y |-> 5], [x |-> 4, y |-> 0]}

\* ------------------------------------------------- Tooltip.js: useTooltip

\* const open = controlledOpen ?? uncontrolledOpen;
Mutant_open(controlled, uncontrolled) == uncontrolled
open(controlled, uncontrolled) ==
    IF Nullish(controlled) THEN uncontrolled ELSE controlled[2]

\* const setOpen = setControlledOpen ?? setUncontrolledOpen;
Mutant_setOpen(hasSetControlledOpen) == "setUncontrolledOpen"
setOpen(hasSetControlledOpen) ==
    IF hasSetControlledOpen THEN "setControlledOpen" ELSE "setUncontrolledOpen"

\* The options useTooltip gives to useFloating: the open value and
\* whileElementsMounted: autoUpdate (placement and middleware only feed
\* computePosition, whose result is an input here).
Mutant_useFloatingOptions_noAutoUpdate(o) ==
    [open |-> Some(o), whileElementsMounted |-> "none"]
useFloatingOptions(o) ==
    [open |-> Some(o), whileElementsMounted |-> "autoUpdate"]

\* useHover(context, {enabled: controlledOpen == null, ...})
Mutant_hoverEnabled(controlled) == TRUE
hoverEnabled(controlled) == Nullish(controlled)

\* useFocus(context, {enabled: controlledOpen == null})
focusEnabled(controlled) == Nullish(controlled)

\* useHover(context, {restMs: isInstantPhase ? 0 : 150, ...})
hoverRestMs(isInstantPhase) == IF isInstantPhase THEN 0 ELSE 150

\* The context of useDelayGroupContext() outside every FloatingDelayGroup.
NoDelayGroup == [isInstantPhase |-> FALSE, currentId |-> Null]

\* The listeners the interaction hooks put on the reference element: those of
\* useHover and useFocus when enabled, and that of useDismiss.
referenceListeners(controlled) ==
    [k \in (IF hoverEnabled(controlled) THEN {"onMouseMove"} ELSE {})
           \cup (IF focusEnabled(controlled) THEN {"onFocus"} ELSE {})
           \cup {"onKeyDown"} |->
        CASE k = "onMouseMove" -> {"useHover"}
          [] k = "onFocus" -> {"useFocus"}
          [] OTHER -> {"useDismiss"}]

\* The props the hooks put on the floating element (useRole).
floatingListeners == [k \in {"role"} |-> "tooltip"]

\* mergeProps of useInteractions: the user's props pass through; every prop that
\* starts with "on" becomes one listener that calls the hooks' listeners and
\* the user's.
mergeProps(userProps, hookProps) ==
    [k \in DOMAIN hookProps \cup DOMAIN userProps |->
        IF k \in EventKeys
        THEN (IF k \in DOMAIN hookProps THEN hookProps[k] ELSE {})
             \cup (IF k \in DOMAIN userProps THEN userProps[k] ELSE {})
        ELSE IF k \in DOMAIN userProps THEN userProps[k] ELSE hookProps[k]]

\* The object useTooltip returns (the memo of lines 81-90): open, setOpen, the
\* prop getters' inputs, and useFloating's data.
useTooltip(controlled, hasSetControlledOpen, uncontrolled, dx, dy) ==
    [open |-> open(controlled, uncontrolled),
     setOpen |-> setOpen(hasSetControlledOpen),
     listeners |-> referenceListeners(controlled),
     x |-> dx, y |-> dy, strategy |-> "absolute"]

\* ------------------------------------- Tooltip.js: the context and its hook

ContextError == "Tooltip components must be wrapped in <Tooltip />"

\* React.createContext(null), and the Provider of <Tooltip>.
TooltipContext(inTooltip, tooltip) == IF inTooltip THEN Some(tooltip) ELSE Null

Mutant_useTooltipContext(context) ==
    IF context = Undefined THEN Throw(ContextError) ELSE Return(context)
useTooltipContext(context) ==
    IF Nullish(context) THEN Throw(ContextError) ELSE Return(context)

\* What reading a property of null or undefined throws (children.ref of missing
\* children; context.refs, were the hook to return a null context).
PropertyOfNull == "TypeError"

\* ------------------------------------------- Tooltip.js: TooltipTrigger

\* useMergeRefs([context.refs.setReference, propRef, childrenRef])
triggerRef == {"setReference", "propRef", "childrenRef"}

dataState(o) == IF o THEN "open" ELSE "closed"

\* The element TooltipTrigger renders, or what it throws. child is
\* [nullish, valid, props]: children == null, React.isValidElement(children)
\* and children.props. After the context hook, line 124 reads children.ref,
\* which throws when children is null or undefined.
TooltipTrigger(props, child, childAsAnchor, context) ==
    LET used == useTooltipContext(context) IN
    IF used[1] = "throw" THEN used
    ELSE IF child.nullish THEN Throw(PropertyOfNull)
    ELSE IF Nullish(used[2]) THEN Throw(PropertyOfNull)
    ELSE LET ctx == used[2][2] IN
         IF childAsAnchor /\ child.valid
         THEN Element("child",
                  Spread(child.props,
                      mergeProps(
                          Spread(Spread(Spread([k \in {"ref"} |-> triggerRef], props),
                                        child.props),
                                 [k \in {"data-state"} |-> dataState(ctx.open)]),
                          ctx.listeners)))
         ELSE Element("button",
                  Spread([k \in {"ref", "data-state"} |->
                             IF k = "ref" THEN triggerRef ELSE dataState(ctx.open)],
                         mergeProps(props, ctx.listeners)))

\* ------------------------------------------- Tooltip.js: TooltipContent

\* useMergeRefs([context.refs.setFloating, propRef])
Mutant_contentRef == {"propRef"}
contentRef == {"setFloating", "propRef"}

\* The duration TooltipContent gives to useTransitionStyles (lines 177-179);
\* currentId is null or the id of a tooltip.
Mutant_transitionDuration(isInstantPhase, ownId, currentId) ==
    IF isInstantPhase THEN [open |-> 100, close |-> 150]
    ELSE [open |-> 300, close |-> 150]
transitionDuration(isInstantPhase, ownId, currentId) ==
    IF isInstantPhase
    THEN [open |-> 100, close |-> IF Some(ownId) = currentId THEN 150 ELSE 50]
    ELSE [open |-> 300, close |-> 150]

\* The styles of useTransitionStyles: opacity (and a transform), never top or left.
transitionStyles(o) == [k \in {"opacity"} |-> IF o THEN 1 ELSE 0]

\* context.y ?? 0
orZero(v) == IF Nullish(v) THEN 0 ELSE v[2]

\* The style object of lines 197-205.
contentStyle(props, ctx) ==
    Spread(Spread([k \in {"position", "top", "left"} |->
                      CASE k = "position" -> ctx.strategy
                        [] k = "top" -> MathRound(orZero(ctx.y))
                        [] OTHER -> MathRound(orZero(ctx.x))],
                  IF "style" \in DOMAIN props THEN props["style"] ELSE EmptyProps),
           transitionStyles(ctx.open))

\* What TooltipContent renders: the portal and, when mounted, the div with its
\* props in JSX order (ref, className, style, then getFloatingProps(props)).
Mutant_TooltipContent_always(props, context, mounted) ==
    LET used == useTooltipContext(context) IN
    IF used[1] = "throw" THEN used
    ELSE IF Nullish(used[2]) THEN Throw(PropertyOfNull)
    ELSE LET ctx == used[2][2] IN
         <<"portal", "tooltip-portal",
           Element("div",
               Spread([k \in {"ref", "style"} |->
                          IF k = "ref" THEN contentRef ELSE contentStyle(props, ctx)],
                      mergeProps(props, floatingListeners)))>>
TooltipContent(props, context, mounted) ==
    LET used == useTooltipContext(context) IN
    IF used[1] = "throw" THEN used
    ELSE IF Nullish(used[2]) THEN Throw(PropertyOfNull)
    ELSE LET ctx == used[2][2] IN
         <<"portal", "tooltip-portal",
           IF mounted
           THEN Element("div",
                    Spread([k \in {"ref", "style"} |->
                               IF k = "ref" THEN contentRef ELSE contentStyle(props, ctx)],
                           mergeProps(props, floatingListeners)))
           ELSE NotRendered>>

\* The floating div of a rendered TooltipContent, NotRendered when there is none.
floatingDiv(out) == IF out[1] = "portal" THEN out[3] ELSE NotRendered

\* ------------------------------------------------------ one render pass

\* The open value of the current state.
Open == open(controlledOpen, uncontrolledOpen)

\* The value <Tooltip> provides, seen from the trigger and the content.
provided(c, u, dx, dy) ==
    TooltipContext(wrapped, useTooltip(c, hasOnOpenChange, u, dx, dy))

\* The trigger as rendered when the parent renders it as node t.
renderedTrigger(c, u, t, dx, dy) ==
    IF t = 0 THEN NotRendered
    ELSE TooltipTrigger(triggerProps, children, asChild, provided(c, u, dx, dy))

\* The element a ref callback of the library is called with after the commit.
attached(element, node, callback) ==
    IF IsElement(element) /\ callback \in element[3]["ref"] THEN node ELSE 0

\* ------------------------------------------------ the library: useFloating

\* The subscription whileElementsMounted holds for a pair of elements.
subscription(opts, r, f) ==
    IF r # 0 /\ f # 0 /\ opts.whileElementsMounted = "autoUpdate"
    THEN {<<r, f>>} ELSE {}

\* The layout effects of useFloating after a commit that set the elements to r
\* and f: isPositioned is reset when the open option became false; when an
\* element changed, the old subscription is cleaned up and, with both elements
\* present, the position is computed (by autoUpdate's first call of update, or
\* by update itself).
Mutant_useFloating(opts, r, f, positioned, queued) ==
    /\ options' = opts
    /\ referenceEl' = r
    /\ floatingEl' = f
    /\ isPositioned' = IF options'.open = Some(FALSE) /\ options'.open # options.open
                       THEN FALSE ELSE positioned
    /\ subs' = IF referenceEl' # referenceEl \/ floatingEl' # floatingEl
               THEN subscription(options', referenceEl', floatingEl') ELSE subs
    /\ pending' = IF referenceEl' # referenceEl /\ referenceEl' # 0 /\ floatingEl' # 0
                  THEN queued + 1 ELSE queued
useFloating(opts, r, f, positioned, queued) ==
    /\ options' = opts
    /\ referenceEl' = r
    /\ floatingEl' = f
    /\ isPositioned' = IF options'.open = Some(FALSE) /\ options'.open # options.open
                       THEN FALSE ELSE positioned
    /\ subs' = IF referenceEl' # referenceEl \/ floatingEl' # floatingEl
               THEN subscription(options', referenceEl', floatingEl') ELSE subs
    /\ pending' = IF (referenceEl' # referenceEl \/ floatingEl' # floatingEl)
                     /\ referenceEl' # 0 /\ floatingEl' # 0
                  THEN queued + 1 ELSE queued

\* The values of isPositioned a resolved computation may set: true while the
\* open option is not false. What a computation that resolves while the option
\* is false sets is not documented, so both values are possible.
positionedBy(opts) == IF opts.open = Some(FALSE) THEN BOOLEAN ELSE {TRUE}

\* ------------------------------------------------------------- the tooltip

\* A render of <Tooltip> with its trigger and content, committed, with the
\* layout effects it runs: c, u the open prop and state, t the trigger's node,
\* m0 and tmr the transition's mount flag and timer before useDelayUnmount,
\* dx, dy, positioned, queued the position data, g the delay group's context.
Render(g, c, u, t, m0, tmr, dx, dy, positioned, queued) ==
    /\ delayGroup' = g
    /\ controlledOpen' = c
    /\ uncontrolledOpen' = u
    /\ triggerNode' = t
    /\ isMounted' = (open(c, u) \/ m0)
    /\ closeTimer' = IF open(c, u) THEN FALSE ELSE IF Open THEN TRUE ELSE tmr
    /\ x' = dx
    /\ y' = dy
    /\ contextOut' = useTooltipContext(provided(c, u, dx, dy))
    /\ triggerOut' = renderedTrigger(c, u, t, dx, dy)
    /\ contentOut' = TooltipContent(contentProps, provided(c, u, dx, dy), isMounted')
    /\ useFloating(useFloatingOptions(open(c, u)),
                   attached(triggerOut', t, "setReference"),
                   attached(floatingDiv(contentOut'), 1, "setFloating"),
                   positioned, queued)
    /\ restMs' = Some(hoverRestMs(g.isInstantPhase))
    /\ duration' = Some(transitionDuration(g.isInstantPhase, id, g.currentId))
    /\ UNCHANGED <<wrapped, initialOpen, hasOnOpenChange, asChild, children,
                   triggerProps, contentProps, id>>

\* The values the open prop takes while a tooltip lives: not passed, null, or a
\* boolean.
ControlledValues == {Undefined, Null, Some(TRUE), Some(FALSE)}

\* Props a TooltipContent may be given: none, or a style that leaves top and
\* left alone.
ContentPropsSet ==
    {EmptyProps, [k \in {"style"} |-> [j \in {"zIndex"} |-> 10]]}

\* Children that are text, and children left out (undefined) or {null}.
NoChild == [nullish |-> FALSE, valid |-> FALSE, props |-> EmptyProps]
NullChildren == [nullish |-> TRUE, valid |-> FALSE, props |-> EmptyProps]

\* The first commit of a <Tooltip> holding a TooltipContent without props and,
\* when t is 1, a TooltipTrigger.
Init ==
    \E io \in BOOLEAN, c \in ControlledValues, has \in BOOLEAN, t \in {0, 1} :
        LET o == open(c, io)
            ctx == TooltipContext(TRUE, useTooltip(c, has, io, Null, Null))
            trig == IF t = 0 THEN NotRendered
                    ELSE TooltipTrigger(EmptyProps, NoChild, FALSE, ctx)
            cont == TooltipContent(EmptyProps, ctx, o)
            r == attached(trig, t, "setReference")
            f == attached(floatingDiv(cont), 1, "setFloating")
        IN /\ wrapped = TRUE
           /\ initialOpen = io
           /\ controlledOpen = c
           /\ hasOnOpenChange = has
           /\ uncontrolledOpen = io
           /\ options = useFloatingOptions(o)
           /\ triggerNode = t
           /\ referenceEl = r
           /\ floatingEl = f
           /\ x = Null
           /\ y = Null
           /\ isPositioned = FALSE
           /\ pending = IF r # 0 /\ f # 0 THEN 1 ELSE 0
           /\ subs = subscription(useFloatingOptions(o), r, f)
           /\ isMounted = o
           /\ closeTimer = ~o
           /\ request = Null
           /\ onOpenChangeCall = Null
           /\ asChild = FALSE
           /\ children = NoChild
           /\ triggerProps = EmptyProps
           /\ contentProps = EmptyProps
           /\ contextOut = useTooltipContext(ctx)
           /\ triggerOut = trig
           /\ contentOut = cont
           /\ delayGroup = NoDelayGroup
           /\ id = 1
           /\ restMs = Some(hoverRestMs(NoDelayGroup.isInstantPhase))
           /\ duration = Some(transitionDuration(NoDelayGroup.isInstantPhase, 1,
                                                 NoDelayGroup.currentId))

\* An interaction hook (context.onOpenChange(v)) or a consumer of the context
\* calls setOpen(v), in a render where the delay group's context is g. A parent
\* given the request may follow it with its open prop.
GroupRequest(g, hook, v) ==
    /\ pending < MaxPending
    /\ request' = <<"request", hook, v>>
    /\ IF setOpen(hasOnOpenChange) = "setControlledOpen"
       THEN /\ onOpenChangeCall' = Some(v)
            /\ \E c \in IF Nullish(controlledOpen) THEN {controlledOpen}
                        ELSE {controlledOpen, Some(v)} :
                  Render(g, c, uncontrolledOpen, triggerNode, isMounted, closeTimer,
                         x, y, isPositioned, pending)
       ELSE /\ onOpenChangeCall' = Null
            /\ Render(g, controlledOpen, v, triggerNode, isMounted, closeTimer,
                      x, y, isPositioned, pending)

\* A request while the delay group's context stays as it is.
Request(hook, v) == GroupRequest(delayGroup, hook, v)

\* useHover opens after the pointer rested on the trigger and closes when it left.
Hover(v) == referenceEl # 0 /\ hoverEnabled(controlledOpen) /\ Request("useHover", v)

\* useFocus opens on focus and closes on blur.
Focus(v) == referenceEl # 0 /\ focusEnabled(controlledOpen) /\ Request("useFocus", v)

\* useDismiss closes an open tooltip on Escape or an outside press.
Dismiss == Open /\ Request("useDismiss", FALSE)

\* A descendant of <Tooltip> calls the setOpen of useTooltipContext() (line 84),
\* whatever the interaction hooks have enabled.
ConsumerSetOpen(v) == Request("setOpen", v)

\* Another tooltip i of the FloatingDelayGroup opens (the group of the tooltip's
\* life holds this tooltip and one other): the group's currentId
\* becomes i, in the instant phase when a tooltip was current before, and the
\* useDelayGroup of this tooltip (lines 170-172) calls the context's
\* onOpenChange(false).
DelayGroupCurrent(i) ==
    /\ i # id
    /\ delayGroup.currentId # Some(i)
    /\ GroupRequest([isInstantPhase |-> delayGroup.currentId # Null,
                      currentId |-> Some(i)],
                     "useDelayGroup", FALSE)

\* The group's current tooltip closed and the group went back to its initial
\* state: no current tooltip, no instant phase.
DelayGroupIdle ==
    /\ delayGroup.currentId # Null
    /\ request' = Null
    /\ onOpenChangeCall' = Null
    /\ Render(NoDelayGroup, controlledOpen, uncontrolledOpen, triggerNode,
              isMounted, closeTimer, x, y, isPositioned, pending)

\* The parent renders <Tooltip> with another open prop.
ParentSetOpen(c) ==
    /\ pending < MaxPending
    /\ c # controlledOpen
    /\ request' = Null
    /\ onOpenChangeCall' = Null
    /\ Render(delayGroup, c, uncontrolledOpen, triggerNode, isMounted, closeTimer,
              x, y, isPositioned, pending)

\* The parent mounts, unmounts or replaces the TooltipTrigger.
SetTrigger(t) ==
    /\ pending < MaxPending
    /\ t # triggerNode
    /\ request' = Null
    /\ onOpenChangeCall' = Null
    /\ Render(delayGroup, controlledOpen, uncontrolledOpen, t, isMounted, closeTimer,
              x, y, isPositioned, pending)

\* An ancestor scrolls: autoUpdate, when subscribed, calls update().
Scroll ==
    /\ pending < MaxPending
    /\ pending' = IF subs # {} THEN pending + 1 ELSE pending
    /\ request' = Null
    /\ onOpenChangeCall' = Null
    /\ UNCHANGED <<wrapped, initialOpen, controlledOpen, hasOnOpenChange,
                   uncontrolledOpen, options, triggerNode, referenceEl, floatingEl,
                   x, y, isPositioned, subs, isMounted, closeTimer, asChild,
                   children, triggerProps, contentProps, contextOut, triggerOut,
                   contentOut, delayGroup, id, restMs, duration>>

\* The window or an element resizes: as for a scroll.
Resize ==
    /\ pending < MaxPending
    /\ pending' = IF subs # {} THEN pending + 1 ELSE pending
    /\ request' = Null
    /\ onOpenChangeCall' = Null
    /\ UNCHANGED <<wrapped, initialOpen, controlledOpen, hasOnOpenChange,
                   uncontrolledOpen, options, triggerNode, referenceEl, floatingEl,
                   x, y, isPositioned, subs, isMounted, closeTimer, asChild,
                   children, triggerProps, contentProps, contextOut, triggerOut,
                   contentOut, delayGroup, id, restMs, duration>>

\* The close duration elapsed: useTransitionStyles unmounts the floating element.
CloseTimeout ==
    /\ closeTimer
    /\ request' = Null
    /\ onOpenChangeCall' = Null
    /\ Render(delayGroup, controlledOpen, uncontrolledOpen, triggerNode, FALSE, FALSE,
              x, y, isPositioned, pending)

\* The microtasks run: the outstanding computePosition() promises resolve and
\* the data is set, which renders the tooltip again.
FlushMicrotasks ==
    /\ pending > 0
    /\ request' = Null
    /\ onOpenChangeCall' = Null
    /\ \E p \in PositionResults, positioned \in positionedBy(options) :
          Render(delayGroup, controlledOpen, uncontrolledOpen, triggerNode, isMounted,
                 closeTimer, Some(p.x), Some(p.y), positioned, 0)

Next ==
    \/ \E v \in BOOLEAN : Hover(v)
    \/ \E v \in BOOLEAN : Focus(v)
    \/ Dismiss
    \/ \E v \in BOOLEAN : ConsumerSetOpen(v)
    \/ DelayGroupCurrent(id + 1)
    \/ DelayGroupIdle
    \/ \E c \in ControlledValues : ParentSetOpen(c)
    \/ \E t \in 0..MaxNodes : SetTrigger(t)
    \/ Scroll
    \/ Resize
    \/ CloseTimeout
    \/ FlushMicrotasks

Spec == Init /\ [][Next]_vars

\* The browser fires a timer that stays due. (Nothing is assumed about when
\* the microtasks run.)
FairSpec == Spec /\ WF_vars(CloseTimeout)

\* ------------------------------------- the bare hook of the documentation

\* The first commit of a component that calls useFloating(opts) and renders
\* the reference (node r) and the floating element (node f), of which either
\* may be left out (conditional rendering).
HookInit ==
    \E wem \in {"none", "autoUpdate"}, o \in {Undefined, Some(TRUE), Some(FALSE)},
       r \in {0, 1}, f \in {0, 1} :
        LET opts == [open |-> o, whileElementsMounted |-> wem] IN
        /\ wrapped = FALSE
        /\ initialOpen = FALSE
        /\ controlledOpen = Undefined
        /\ hasOnOpenChange = FALSE
        /\ uncontrolledOpen = FALSE
        /\ options = opts
        /\ triggerNode = 0
        /\ referenceEl = r
        /\ floatingEl = f
        /\ x = Null
        /\ y = Null
        /\ isPositioned = FALSE
        /\ pending = IF r # 0 /\ f # 0 THEN 1 ELSE 0
        /\ subs = subscription(opts, r, f)
        /\ isMounted = FALSE
        /\ closeTimer = FALSE
        /\ request = Null
        /\ onOpenChangeCall = Null
        /\ asChild = FALSE
        /\ children = NoChild
        /\ triggerProps = EmptyProps
        /\ contentProps = EmptyProps
        /\ contextOut = NotRendered
        /\ triggerOut = NotRendered
        /\ contentOut = NotRendered
        /\ delayGroup = NoDelayGroup
        /\ id = 1
        /\ restMs = Null
        /\ duration = Null

\* What no action on the bare hook changes.
HookFrame ==
    UNCHANGED <<wrapped, initialOpen, controlledOpen, hasOnOpenChange,
                uncontrolledOpen, triggerNode, isMounted, closeTimer, request,
                onOpenChangeCall, asChild, children, triggerProps, contentProps,
                contextOut, triggerOut, contentOut, delayGroup, id, restMs,
                duration>>

\* refs.setReference(node)
HookSetReference(n) ==
    /\ pending < MaxPending
    /\ n # referenceEl
    /\ useFloating(options, n, floatingEl, isPositioned, pending)
    /\ UNCHANGED <<x, y>>
    /\ HookFrame

\* refs.setFloating(node)
HookSetFloating(n) ==
    /\ pending < MaxPending
    /\ n # floatingEl
    /\ useFloating(options, referenceEl, n, isPositioned, pending)
    /\ UNCHANGED <<x, y>>
    /\ HookFrame

\* The host renders with another value of the open option.
HookSetOpen(o) ==
    /\ pending < MaxPending
    /\ options.open # Undefined
    /\ Some(o) # options.open
    /\ useFloating([options EXCEPT !.open = Some(o)], referenceEl, floatingEl,
                   isPositioned, pending)
    /\ UNCHANGED <<x, y>>
    /\ HookFrame

\* The update() the hook returns, called by the host.
HookUpdate ==
    /\ pending < MaxPending
    /\ pending' = IF referenceEl # 0 /\ floatingEl # 0 THEN pending + 1 ELSE pending
    /\ UNCHANGED <<options, referenceEl, floatingEl, x, y, isPositioned, subs>>
    /\ HookFrame

\* The microtasks run: the data of the resolved computation is set.
HookFlush ==
    /\ pending > 0
    /\ \E p \in PositionResults : x' = Some(p.x) /\ y' = Some(p.y)
    /\ isPositioned' \in positionedBy(options)
    /\ pending' = 0
    /\ UNCHANGED <<options, referenceEl, floatingEl, subs>>
    /\ HookFrame

HookNext ==
    \/ \E n \in 0..MaxNodes : HookSetReference(n)
    \/ \E n \in 0..MaxNodes : HookSetFloating(n)
    \/ \E o \in BOOLEAN : HookSetOpen(o)
    \/ HookUpdate
    \/ Scroll
    \/ Resize
    \/ HookFlush

HookSpec == HookInit /\ [][HookNext]_vars

\* --------------------------------------------------------- single renders

\* The props of the model a user may give to TooltipTrigger or set on its child.
UserKeys == {"onFocus", "onClick", "data-state"}

\* The props objects over UserKeys: listeners named after who gave them, and a
\* data-state of the user's own.
UserProps(who) ==
    {[k \in keys |-> IF k \in EventKeys THEN {who} ELSE "custom"] :
        keys \in SUBSET UserKeys}

\* The children of TooltipTrigger: text, none, or one element with props.
ChildrenSet ==
    {NoChild, NullChildren}
    \cup {[nullish |-> FALSE, valid |-> TRUE, props |-> p] : p \in UserProps("userChild")}

\* The coordinates the context may hold.
Coordinates == {<<Null, Null>>} \cup {<<Some(p.x), Some(p.y)>> : p \in PositionResults}

\* A trigger and a content about to render, inside a <Tooltip> or not: the
\* trigger over all its props with a content without props, or the content
\* over its props and the position data with a plain trigger.
RenderInit ==
    \E inTooltip \in BOOLEAN, c \in ControlledValues \cup {Null}, u \in BOOLEAN,
       tp \in UserProps("userTrigger"), ch \in ChildrenSet, ac \in BOOLEAN,
       cp \in ContentPropsSet \cup {[k \in {"style"} |-> [j \in {"top", "left"} |-> 7]]},
       xy \in Coordinates, m \in BOOLEAN :
        /\ \/ cp = EmptyProps /\ xy = <<Null, Null>> /\ m = open(c, u)
           \/ tp = EmptyProps /\ ch = NoChild /\ ac = FALSE
        /\ open(c, u) => m
        /\ wrapped = inTooltip
        /\ initialOpen = u
        /\ controlledOpen = c
        /\ hasOnOpenChange = FALSE
        /\ uncontrolledOpen = u
        /\ options = useFloatingOptions(open(c, u))
        /\ triggerNode = 0
        /\ referenceEl = 0
        /\ floatingEl = 0
        /\ x = xy[1]
        /\ y = xy[2]
        /\ isPositioned = FALSE
        /\ pending = 0
        /\ subs = {}
        /\ isMounted = m
        /\ closeTimer = FALSE
        /\ request = Null
        /\ onOpenChangeCall = Null
        /\ asChild = ac
        /\ children = ch
        /\ triggerProps = tp
        /\ contentProps = cp
        /\ contextOut = NotRendered
        /\ triggerOut = NotRendered
        /\ contentOut = NotRendered
        /\ delayGroup = NoDelayGroup
        /\ id = 1
        /\ restMs = Null
        /\ duration = Null

\* What a single render leaves alone.
RenderFrame ==
    UNCHANGED <<wrapped, initialOpen, controlledOpen, hasOnOpenChange,
                uncontrolledOpen, options, triggerNode, referenceEl, floatingEl,
                x, y, isPositioned, pending, subs, isMounted, closeTimer, request,
                onOpenChangeCall, asChild, children, triggerProps, contentProps,
                delayGroup, id, restMs, duration>>

\* React renders the TooltipTrigger.
RenderTrigger ==
    /\ triggerOut = NotRendered
    /\ triggerOut' = TooltipTrigger(triggerProps, children, asChild,
                                    provided(controlledOpen, uncontrolledOpen, x, y))
    /\ contextOut' = useTooltipContext(provided(controlledOpen, uncontrolledOpen, x, y))
    /\ UNCHANGED contentOut
    /\ RenderFrame

\* React renders the TooltipContent.
RenderContent ==
    /\ contentOut = NotRendered
    /\ contentOut' = TooltipContent(contentProps,
                                    provided(controlledOpen, uncontrolledOpen, x, y),
                                    isMounted)
    /\ contextOut' = useTooltipContext(provided(controlledOpen, uncontrolledOpen, x, y))
    /\ UNCHANGED triggerOut
    /\ RenderFrame

RenderNext == RenderTrigger \/ RenderContent

RenderSpec == RenderInit /\ [][RenderNext]_vars

\* ------------------------------------------ the timings in a delay group

\* The values useDelayGroupContext() may give: no tooltip of the group is
\* current, or one is, in either phase.
DelayGroups ==
    [isInstantPhase : BOOLEAN, currentId : {Null} \cup {Some(i) : i \in 1..MaxIds}]

\* A tooltip of a delay group about to render: the group's state g, the
\* tooltip's id i and its open option and state.
TimingInit ==
    \E g \in DelayGroups, i \in 1..MaxIds, c \in ControlledValues, u \in BOOLEAN :
        /\ wrapped = TRUE
        /\ initialOpen = u
        /\ controlledOpen = c
        /\ hasOnOpenChange = FALSE
        /\ uncontrolledOpen = u
        /\ options = useFloatingOptions(open(c, u))
        /\ triggerNode = 0
        /\ referenceEl = 0
        /\ floatingEl = 0
        /\ x = Null
        /\ y = Null
        /\ isPositioned = FALSE
        /\ pending = 0
        /\ subs = {}
        /\ isMounted = open(c, u)
        /\ closeTimer = FALSE
        /\ request = Null
        /\ onOpenChangeCall = Null
        /\ asChild = FALSE
        /\ children = NoChild
        /\ triggerProps = EmptyProps
        /\ contentProps = EmptyProps
        /\ contextOut = NotRendered
        /\ triggerOut = NotRendered
        /\ contentOut = NotRendered
        /\ delayGroup = g
        /\ id = i
        /\ restMs = Null
        /\ duration = Null

\* What a single render leaves alone.
TimingFrame ==
    UNCHANGED <<wrapped, initialOpen, controlledOpen, hasOnOpenChange,
                uncontrolledOpen, options, triggerNode, referenceEl, floatingEl,
                x, y, isPositioned, pending, subs, isMounted, closeTimer, request,
                onOpenChangeCall, asChild, children, triggerProps, contentProps,
                contextOut, triggerOut, contentOut, delayGroup, id>>

\* React renders <Tooltip>: useTooltip reads the group's phase for useHover.
TimingTooltip ==
    /\ restMs = Null
    /\ restMs' = Some(hoverRestMs(delayGroup.isInstantPhase))
    /\ UNCHANGED duration
    /\ TimingFrame

\* React renders the TooltipContent: it reads the group's phase and current id
\* for useTransitionStyles.
TimingContent ==
    /\ duration = Null
    /\ duration' = Some(transitionDuration(delayGroup.isInstantPhase, id,
                                           delayGroup.currentId))
    /\ UNCHANGED restMs
    /\ TimingFrame

TimingNext == TimingTooltip \/ TimingContent

TimingSpec == TimingInit /\ [][TimingNext]_vars

\* ------------------------------------------------------------- the claims

\* The floating div as rendered in the current state.
FloatingRendered ==
    /\ contentOut[1] = "portal"
    /\ contentOut[2] = "tooltip-portal"
    /\ IsElement(contentOut[3])
    /\ contentOut[3][2] = "div"

\* C1: useTooltipContext throws Error('Tooltip components must be wrapped in
\* <Tooltip />') when there is no enclosing Tooltip and otherwise returns the
\* value the Tooltip provided; outside a Tooltip the trigger and the content
\* render nothing: each throws that error.
C1_ContextGuard ==
    /\ contextOut # NotRendered =>
          contextOut =
              IF wrapped
              THEN Return(Some(useTooltip(controlledOpen, hasOnOpenChange,
                                          uncontrolledOpen, x, y)))
              ELSE Throw("Tooltip components must be wrapped in <Tooltip />")
    /\ ~wrapped =>
          /\ triggerOut \in {NotRendered,
                             Throw("Tooltip components must be wrapped in <Tooltip />")}
          /\ contentOut \in {NotRendered,
                             Throw("Tooltip components must be wrapped in <Tooltip />")}

\* C1 witness: both components were rendered outside a Tooltip and threw.
C1_Witness ==
    /\ ~wrapped
    /\ triggerOut[1] = "throw"
    /\ contentOut[1] = "throw"

\* C2 as stated: once the microtasks are flushed after any render of an open
\* tooltip, x and y are non-null.
C2_Original == (Open /\ pending = 0) => (x # Null /\ y # Null)

\* C2 amended: no render computes the position, only the microtask that
\* follows sets x and y; and once the microtasks are flushed after a render of
\* an open tooltip whose trigger is mounted, x and y are non-null.
C2_Amended ==
    /\ []((Open /\ referenceEl # 0 /\ pending = 0) => (x # Null /\ y # Null))
    /\ [][(x = Null /\ x' # Null) => (pending > 0 /\ pending' = 0)]_vars
    /\ [][(y = Null /\ y' # Null) => (pending > 0 /\ pending' = 0)]_vars
    /\ [][(floatingEl = 0 /\ floatingEl' # 0 /\ referenceEl' # 0 /\ x = Null)
             => (x' = Null /\ pending' > 0)]_vars

\* C2 witness: an open tooltip with its trigger, positioned after the flush.
C2_Witness ==
    /\ Open
    /\ referenceEl # 0
    /\ floatingEl # 0
    /\ pending = 0
    /\ x # Null
    /\ y # Null

\* C3 as stated: before the first computation x and y are null and the
\* floating element is rendered with top = 0 and left = 0; once they are set
\* it is rendered with top = round(y) and left = round(x).
C3_Original ==
    FloatingRendered =>
        LET style == contentOut[3][3]["style"] IN
        /\ "top" \in DOMAIN style
        /\ "left" \in DOMAIN style
        /\ style["top"] = (IF y = Null THEN 0 ELSE (y[2] + 1) \div 2)
        /\ style["left"] = (IF x = Null THEN 0 ELSE (x[2] + 1) \div 2)

\* C4 as stated, for an opening: once open is true, both elements are mounted
\* and no computation is outstanding, that opening's computation has completed
\* and isPositioned is true.
C4_Original ==
    (Open /\ referenceEl # 0 /\ floatingEl # 0 /\ pending = 0) => isPositioned

\* An element of useFloating changes in this step.
ElementChanges == referenceEl' # referenceEl \/ floatingEl' # floatingEl

\* C5 as stated: without autoUpdate and without a call of update(), a
\* computation starts only when the reference or the floating element changes
\* (no scroll or resize starts one), and every such change starts one.
C5_Original ==
    [][options.whileElementsMounted = "none" =>
          /\ (pending' > pending) => (ElementChanges \/ HookUpdate)
          /\ ElementChanges => pending' = pending + 1]_vars

\* C5 amended: without autoUpdate the position is computed once on the first
\* render with both elements; afterwards, without a call of update(), a
\* computation starts only when the reference or the floating element changes,
\* and every change that leaves both elements mounted starts one, while a
\* change that leaves one of them null starts none.
C5_Amended ==
    /\ (options.whileElementsMounted = "none" /\ referenceEl # 0 /\ floatingEl # 0)
          => pending = 1
    /\ [][options.whileElementsMounted = "none" =>
             /\ (pending' > pending) => (ElementChanges \/ HookUpdate)
             /\ (ElementChanges /\ referenceEl' # 0 /\ floatingEl' # 0)
                   => pending' = pending + 1
             /\ (ElementChanges /\ (referenceEl' = 0 \/ floatingEl' = 0))
                   => pending' = pending]_vars

\* C5 witness: without autoUpdate, the reference was replaced after a first
\* position was set, and the computation for the new one is outstanding.
C5_Witness ==
    /\ options.whileElementsMounted = "none"
    /\ referenceEl = 2
    /\ floatingEl # 0
    /\ x # Null
    /\ pending = 1

\* C6: with whileElementsMounted: autoUpdate as useTooltip configures it, the
\* subscription is active exactly while the reference and the floating element
\* are both mounted, for those two elements and no others (so at most one is
\* active and none is left for an unmounted element); it starts, with a first
\* computation, when both become mounted, and every scroll or resize while it
\* is active starts a computation.
C6_AutoUpdate ==
    /\ [](subs = IF referenceEl # 0 /\ floatingEl # 0
                 THEN {<<referenceEl, floatingEl>>} ELSE {})
    /\ [](Cardinality(subs) <= 1)
    /\ [][((referenceEl = 0 \/ floatingEl = 0) /\ referenceEl' # 0 /\ floatingEl' # 0)
             => (subs' # {} /\ pending' = pending + 1)]_vars
    /\ [][((Scroll \/ Resize) /\ subs # {}) => pending' = pending + 1]_vars

\* C6 witness: after an open/close cycle in which the tooltip was positioned,
\* the floating element is unmounted and no subscription is left.
C6_Witness ==
    /\ x # Null
    /\ referenceEl # 0
    /\ floatingEl = 0
    /\ ~isMounted
    /\ subs = {}

\* The listeners of the model's event props a user gave to the trigger: as
\* props of TooltipTrigger, or with asChild as props of the child element.
GivenListeners(k) ==
    (IF k \in DOMAIN triggerProps THEN triggerProps[k] ELSE {})
    \cup (IF asChild /\ children.valid /\ k \in DOMAIN children.props
          THEN children.props[k] ELSE {})

\* The listeners of the enabled interaction hooks for an event prop.
HookListeners(k) ==
    CASE k = "onMouseMove" /\ Nullish(controlledOpen) -> {"useHover"}
      [] k = "onFocus" /\ Nullish(controlledOpen) -> {"useFocus"}
      [] k = "onKeyDown" -> {"useDismiss"}
      [] OTHER -> {}

\* C7 as stated: on the rendered anchor, every event prop runs the user's
\* listeners for it (the trigger's and, with asChild, the child's) and the
\* hooks' listener; none is dropped.
C7_Original ==
    IsElement(triggerOut) =>
        \A k \in EventKeys :
            (GivenListeners(k) \cup HookListeners(k)) # {} =>
                /\ k \in DOMAIN triggerOut[3]
                /\ (GivenListeners(k) \cup HookListeners(k)) \subseteq triggerOut[3][k]

\* C8 as stated: the open value is the open option when that is non-null and
\* otherwise the internal state; after every open-change request the internal
\* state equals the requested value; onOpenChange, when provided, is called
\* for every request.
C8_Original ==
    /\ contextOut[1] = "return" => contextOut[2][2].open =
          (IF controlledOpen \in {Null, Undefined} THEN uncontrolledOpen
           ELSE controlledOpen[2])
    /\ request # Null => uncontrolledOpen = request[3]
    /\ (request # Null /\ hasOnOpenChange) => onOpenChangeCall = Some(request[3])

\* C8 amended: the open value is the open option when that is non-null and
\* otherwise the internal state, which starts at initialOpen; after every
\* open-change request made while onOpenChange is not provided the internal
\* state equals the requested value, and only such a request changes it; when
\* onOpenChange is provided it is called for every request with the requested
\* value.
C8_Amended ==
    /\ uncontrolledOpen = initialOpen
    /\ [](contextOut[1] = "return" => contextOut[2][2].open =
            (IF controlledOpen \in {Null, Undefined} THEN uncontrolledOpen
             ELSE controlledOpen[2]))
    /\ []((request # Null /\ ~hasOnOpenChange) => uncontrolledOpen = request[3])
    /\ []((request # Null /\ hasOnOpenChange) => onOpenChangeCall = Some(request[3]))
    /\ []((request = Null \/ ~hasOnOpenChange) => onOpenChangeCall = Null)
    /\ [][uncontrolledOpen' # uncontrolledOpen
             => (request' # Null /\ ~hasOnOpenChange)]_vars

\* C8 witness: an uncontrolled tooltip without onOpenChange whose internal
\* state a request has just moved away from initialOpen.
C8_Witness ==
    /\ Nullish(controlledOpen)
    /\ ~hasOnOpenChange
    /\ request # Null
    /\ uncontrolledOpen # initialOpen
    /\ contextOut[1] = "return"

\* C9 as stated: the floating div is rendered in the 'tooltip-portal' portal
\* in every state where open is true and in no state where open is false.
C9_Original ==
    /\ Open => FloatingRendered
    /\ ~Open => ~FloatingRendered

\* C9 amended: the floating div is rendered in the 'tooltip-portal' portal in
\* every state where open is true; where open is false it is rendered only
\* while the close transition's timer is pending; after open becomes false and
\* stays false the div is eventually removed.
C9_Amended ==
    /\ [](Open => FloatingRendered)
    /\ []((~Open /\ FloatingRendered) => closeTimer)
    /\ (~Open ~> (Open \/ ~FloatingRendered))

\* C9 witness: open is false and the div is still rendered, closing.
C9_Witness ==
    /\ ~Open
    /\ FloatingRendered
    /\ closeTimer

\* C10 as stated: the element TooltipTrigger renders carries data-state 'open'
\* when the open value is true and 'closed' otherwise, in both branches,
\* whatever the props.
C10_Original ==
    IsElement(triggerOut) =>
        /\ "data-state" \in DOMAIN triggerOut[3]
        /\ triggerOut[3]["data-state"] = (IF Open THEN "open" ELSE "closed")

\* ---------------------------------------------------------------- C11

\* The hook whose listener made the open-change request of the last step.
requestedBy == IF request = Null THEN "none" ELSE request[2]

\* The hooks listening to event k on the rendered trigger.
listening(k) ==
    IF IsElement(triggerOut) /\ k \in DOMAIN triggerOut[3] THEN triggerOut[3][k] ELSE {}

\* The interaction hooks: those useTooltip gives to useInteractions.
InteractionHooks == {"useHover", "useFocus", "useDismiss", "useRole"}

requested == request[3]

\* C12: with onOpenChange provided every request is a call of onOpenChange with
\* the requested value and the internal state stays initialOpen, so that the
\* open value of a tooltip without an open option stays initialOpen; with
\* onOpenChange absent onOpenChange is never called, every request sets the
\* internal state to the requested value and leaves the open option alone, so
\* that with an open option the open value does not change.
C12_OneSetter ==
    /\ [](hasOnOpenChange =>
            /\ uncontrolledOpen = initialOpen
            /\ (request # Null) <=> (onOpenChangeCall # Null)
            /\ request # Null => onOpenChangeCall = Some(requested)
            /\ Nullish(controlledOpen) => Open = initialOpen)
    /\ [](~hasOnOpenChange =>
            /\ onOpenChangeCall = Null
            /\ request # Null => uncontrolledOpen = requested)
    /\ [][(request' # Null /\ ~hasOnOpenChange) =>
            /\ controlledOpen' = controlledOpen
            /\ ~Nullish(controlledOpen) => Open' = Open]_vars

\* An uncontrolled tooltip with onOpenChange whose last request asked for the
\* value it does not have.
C12_Witness ==
    /\ hasOnOpenChange
    /\ Nullish(controlledOpen)
    /\ request # Null
    /\ requested # initialOpen
    /\ onOpenChangeCall = Some(requested)
    /\ Open = initialOpen

\* A controlled tooltip without onOpenChange whose dismissal changed the
\* internal state only.
C12_WitnessControlled ==
    /\ ~hasOnOpenChange
    /\ controlledOpen = Some(TRUE)
    /\ request # Null
    /\ uncontrolledOpen = FALSE
    /\ initialOpen = TRUE
    /\ Open

\* ---------------------------------------------------------------- C13

\* This tooltip is the group's current one.
isCurrent == delayGroup.currentId = Some(id)

\* C13: whatever the open option and state, a rendered tooltip has, outside
\* the instant phase, restMs 150 and durations open 300, close 150, and in the
\* instant phase restMs 0 and durations open 100 and close 150 when its id is
\* the group's currentId, 50 otherwise; the close duration is never above 150
\* and the open duration never below 100.
C13_Timing ==
    /\ restMs # Null =>
          restMs = (IF delayGroup.isInstantPhase THEN Some(0) ELSE Some(150))
    /\ duration # Null =>
          /\ ~delayGroup.isInstantPhase => duration[2] = [open |-> 300, close |-> 150]
          /\ (delayGroup.isInstantPhase /\ isCurrent) =>
                duration[2] = [open |-> 100, close |-> 150]
          /\ (delayGroup.isInstantPhase /\ ~isCurrent) =>
                duration[2] = [open |-> 100, close |-> 50]
          /\ duration[2].close <= 150
          /\ duration[2].open >= 100

\* A tooltip rendered in the instant phase while another tooltip is current.
C13_Witness ==
    /\ delayGroup.isInstantPhase
    /\ delayGroup.currentId # Null
    /\ ~isCurrent
    /\ restMs = Some(0)
    /\ duration = Some([open |-> 100, close |-> 50])

\* A tooltip rendered in the instant phase as the current one.
C13_WitnessCurrent ==
    /\ delayGroup.isInstantPhase
    /\ isCurrent
    /\ duration = Some([open |-> 100, close |-> 150])

\* A controlled tooltip whose onOpenChange(false) was called by useDelayGroup.
C11_DelayGroupCall ==
    /\ ~Nullish(controlledOpen)
    /\ requestedBy = "useDelayGroup"
    /\ onOpenChangeCall = Some(FALSE)

====
